---- MODULE Spec2Model ----
(***************************************************************************)
(* Gyro-integrating turn controller of the smartCar namespace              *)
(* (src/custom.ts): setupAndCalibrate, turn, updateAngle, readRawGyroZ.    *)
(*                                                                         *)
(* Arithmetic.  The program computes in floating point; the model computes *)
(* the same expressions exactly, in fixed point:                           *)
(*   - a rate (degrees/second) is held as rate * Sensitivity * Samples, so *)
(*     that value / 131.0 and sum / 20 are both exact integers;            *)
(*   - an angle (degrees) is held as angle * AngleUnit, so that            *)
(*     rate * (ms / 1000) is an exact integer.                             *)
(* Rounding of the floating-point operations is not modelled.              *)
(*                                                                         *)
(* Steps.  The program runs on one cooperative thread; the code between    *)
(* two basic.pause calls is one atomic step, and each action below is such *)
(* a step, ending at the pause (or the return) the code reaches.           *)
(***************************************************************************)
EXTENDS Integers, Sequences, FiniteSets, TLC

VARIABLES
    \* --- program state (module-level lets, lines 10-12, 23)
    gyro_offset, last_time, current_angle, is_initialized,
    \* --- locals of turn (lines 62-110) and of setupAndCalibrate (41-42)
    direction, target_angle, speed, left_motor_val, right_motor_val,
    stop_early_buffer, start_fix, sum, i,
    \* --- control position of the single thread
    pc,
    \* --- collaborators: the millisecond clock, the actuator, the sensor
    clock,          \* control.millis()
    motor,          \* the last actuator command
    n_set, n_stop,  \* setAllMotor / stopAllMotor commands issued by the current call
    reads,          \* sensor reads made by the current call
    raw_total,      \* signed sum of the raw values read by the current call
    fails,          \* sensor reads that failed so far
    cal_failed,     \* a read of the calibration in progress (or last run) failed
    good_cal,       \* some calibration completed with every read successful
    \* --- observation of the calls
    speed_arg,      \* the speed argument of the last turn call, as passed
    t_reset,        \* clock value at the heading reset of the last accepted turn
    last_ret,       \* which call returned last
    env             \* the environment scenario: sensor behaviour and step overhead

vars == <<gyro_offset, last_time, current_angle, is_initialized,
          direction, target_angle, speed, left_motor_val, right_motor_val,
          stop_early_buffer, start_fix, sum, i, pc, clock, motor, n_set, n_stop,
          reads, raw_total, fails, cal_failed, good_cal, speed_arg, t_reset,
          last_ret, env>>

globals == <<gyro_offset, last_time, current_angle, is_initialized>>
turn_locals == <<direction, target_angle, speed, left_motor_val, right_motor_val,
                 stop_early_buffer, start_fix>>
cal_locals == <<sum, i>>
cal_ghost == <<cal_failed, good_cal>>

(***************************************************************************)
(* Program constants                                                       *)
(***************************************************************************)
CORRECTION_SPEED == 25
BRAKE_DURATION == 100
Sensitivity == 131
Samples == 20
MsPerSec == 1000
MinSpeed == 20
MaxSpeed == 100
SlowSpeed == 40
BufferNormal == 15
BufferSlow == 8
Deadband == 1
FixTimeout == 3000
WakePause == 100
SamplePause == 50
ReadyPause == 500
RoughPause == 10
SettlePause == 200
FixPause == 20

TurnDirection == {"Left", "Right"}

\* fixed-point units
RateUnit == Sensitivity * Samples
AngleUnit == RateUnit * MsPerSec
Deg(d) == d * AngleUnit

Abs(x) == IF x < 0 THEN -x ELSE x

(***************************************************************************)
(* Bounds of the model                                                     *)
(***************************************************************************)
MaxLag == 1          \* ms a step may take on top of its pause
MaxStartMs == 2000   \* calls are started only while clock < MaxStartMs
MaxRoughTicks == 8   \* rough-loop ticks explored when the sensor is unconstrained
MaxFails == 1        \* failing sensor reads per run
MaxStallTicks == 320 \* rough-loop ticks explored when the sensor reports no progress

TrueBias == 40       \* raw zero-rate output of the simulated sensor

(***************************************************************************)
(* Environment.  env.mode selects how the simulated rate sensor behaves:   *)
(*   "free"   any of FreeDps on every read of a turn;                      *)
(*   "cal"    noisy (and possibly failing) reads while calibrating, then   *)
(*            the rate follows the motors;                                 *)
(*   "plant"  the rate equals the commanded motor differential;            *)
(*   "stuck"  as "plant" in the rough loop, zero rate in the correction;   *)
(*   "const"  the constant rate env.rate on every read of a turn;          *)
(*   "stall"  zero rate on every read (the sensor reports no progress).    *)
(* env.lag is the time (ms) a step takes on top of the pause that ends it  *)
(* (I2C transfers, scheduling): basic.pause(ms) returns after ms + lag.    *)
(***************************************************************************)
Modes == {"free", "cal", "plant", "stuck", "const", "stall"}
FreeDps == {-25, 0, 25}
ConstDps == {-60, 25, 60}
CalNoise == {0, 1}

Envs(m) ==
    {[mode |-> m, lag |-> l, rate |-> r] :
        l \in 0..MaxLag, r \in (IF m = "const" THEN ConstDps ELSE {0})}

\* the requests the caller makes in each scenario: <<direction, target_angle, speed>>
TurnInputs(m) ==
    CASE m = "free"  -> {<<"Left", 1, 50>>, <<"Right", 8, 50>>, <<"Right", 10, 30>>,
                         <<"Left", 5, 50>>}
      [] m = "cal"   -> {<<"Right", 5, 50>>, <<"Left", 20, 30>>}
      [] m = "plant" -> TurnDirection \X {5, 8, 15, 20, 90}
                            \X {-150, -30, 0, 10, 19, 20, 30, 39, 40, 70, 50, 100, 101}
      [] m = "stuck" -> TurnDirection \X {45} \X {30, 50}
      [] m = "const" -> {<<"Right", 20, 50>>, <<"Left", 10, 30>>, <<"Left", 5, 70>>}
      [] m = "stall" -> {<<"Right", 45, 50>>, <<"Left", 20, 30>>, <<"Left", 8, 50>>,
                         <<"Right", 15, 70>>, <<"Right", 1, 50>>}

\* actuator commands
NoCmd == <<"none", 0, 0>>
StopCmd == <<"stop", 0, 0>>
SetCmd(l, r) == <<"set", l, r>>
Differential(m) == IF m[1] = "set" THEN m[2] - m[3] ELSE 0

\* pins.i2cReadBuffer(MPU_ADDR, 2): the register pair, high byte first,
\* two's complement
ToBytes(v) == LET u == v % 65536 IN <<u \div 256, u % 256>>

\* what a read can return at this point: the raw signed value on the bus and
\* whether the transfer succeeded (a failed transfer leaves the zero-filled buffer)
SensorReads(phase) ==
    LET plant == TrueBias + Sensitivity * Differential(motor)
        good ==
            CASE phase = "cal" ->
                    IF env.mode = "cal" THEN {TrueBias + n : n \in CalNoise}
                    ELSE {TrueBias}
              [] env.mode = "free" -> {TrueBias + Sensitivity * d : d \in FreeDps}
              [] env.mode = "const" -> {TrueBias + Sensitivity * env.rate}
              [] env.mode = "stuck" /\ phase = "fix" -> {TrueBias}
              [] env.mode = "stall" -> {TrueBias}
              [] OTHER -> {plant}
        bad == IF phase = "cal" /\ env.mode = "cal" /\ fails < MaxFails
               THEN {[raw |-> 0, ok |-> FALSE]} ELSE {}
    IN {[raw |-> v, ok |-> TRUE] : v \in good} \cup bad

\* basic.pause(ms)
Pause(ms) == clock' = clock + ms + env.lag

(***************************************************************************)
(* readRawGyroZ (lines 151-163), on the two bytes read                     *)
(***************************************************************************)
readRawGyroZ(buf) ==
    LET h == buf[1]
        l == buf[2]
        value == h * 256 + l      \* (h << 8) | l, with l < 256
        folded == IF value >= 32768 THEN value - 65536 ELSE value
    IN folded * Samples           \* value / 131.0, in RateUnit

(***************************************************************************)
(* updateAngle (lines 142-149)                                             *)
(***************************************************************************)
Dt(now) == now - last_time        \* (now - last_time) / 1000, in AngleUnit / RateUnit

GyroReading(buf) == readRawGyroZ(buf) - gyro_offset

NextAngle(now, buf) == current_angle + GyroReading(buf) * Dt(now)

\* variant: the tick forgets line 145 (last_time = now)
updateAngleNoStamp(buf) ==
    /\ current_angle' = NextAngle(clock, buf)
    /\ UNCHANGED last_time

updateAngle(buf) ==
    /\ current_angle' = NextAngle(clock, buf)
    /\ last_time' = clock

(***************************************************************************)
(* setupAndCalibrate (lines 31-50)                                         *)
(***************************************************************************)
\* variant: the new mean is averaged with the previous offset
MeanOffsetSmoothed(s) == (gyro_offset + s \div Samples) \div 2

MeanOffset(s) == s \div Samples

setupAndCalibrate ==
    /\ pc = "idle"
    /\ clock < MaxStartMs
    /\ is_initialized' = TRUE
    /\ Pause(WakePause)
    /\ sum' = 0
    /\ i' = 0
    /\ pc' = "cal"
    /\ n_set' = 0 /\ n_stop' = 0 /\ reads' = 0 /\ raw_total' = 0
    /\ cal_failed' = FALSE
    /\ UNCHANGED <<gyro_offset, last_time, current_angle, turn_locals, motor,
                   fails, good_cal, speed_arg, t_reset, last_ret, env>>

CalSample ==
    /\ pc = "cal"
    /\ i < Samples
    /\ \E rd \in SensorReads("cal") :
        /\ sum' = sum + readRawGyroZ(ToBytes(rd.raw))
        /\ raw_total' = raw_total + rd.raw
        /\ fails' = IF rd.ok THEN fails ELSE fails + 1
        /\ cal_failed' = (cal_failed \/ ~rd.ok)
    /\ reads' = reads + 1
    /\ Pause(SamplePause)
    /\ i' = i + 1
    /\ UNCHANGED <<globals, turn_locals, pc, motor, n_set, n_stop, good_cal,
                   speed_arg, t_reset, last_ret, env>>

CalFinish ==
    /\ pc = "cal"
    /\ ~(i < Samples)
    /\ gyro_offset' = MeanOffset(sum)
    /\ Pause(ReadyPause)
    /\ pc' = "ready"
    /\ good_cal' = (good_cal \/ ~cal_failed)
    /\ UNCHANGED <<last_time, current_angle, is_initialized, turn_locals, cal_locals,
                   motor, n_set, n_stop, reads, raw_total, fails, cal_failed,
                   speed_arg, t_reset, last_ret, env>>

CalReturn ==
    /\ pc = "ready"
    /\ pc' = "idle"
    /\ last_ret' = "calibrate"
    /\ UNCHANGED <<globals, turn_locals, cal_locals, clock, motor, n_set, n_stop,
                   reads, raw_total, fails, cal_ghost, speed_arg, t_reset, env>>

(***************************************************************************)
(* turn (lines 62-138)                                                     *)
(***************************************************************************)
\* variant: the guard of line 63 is missing
GuardDropped == FALSE

\* line 63: if (!is_initialized) return
NotInitialized == ~is_initialized

\* variant: line 69 (Math.abs) is missing
ClampSpeedNoAbs(s) ==
    LET b == IF s < MinSpeed THEN MinSpeed ELSE s
    IN IF b > MaxSpeed THEN MaxSpeed ELSE b

\* lines 69-71
ClampSpeed(s) ==
    LET a == Abs(s)
        b == IF a < MinSpeed THEN MinSpeed ELSE a
    IN IF b > MaxSpeed THEN MaxSpeed ELSE b

\* variant: the right motor is never reversed
RightMotorValForward(d, spd) == spd

\* lines 80-86
LeftMotorVal(d, spd) == IF d = "Left" THEN -spd ELSE spd
RightMotorVal(d, spd) == IF d = "Left" THEN spd ELSE -spd

\* variant: speed <= 40 selects the small buffer
StopEarlyBufferInclusive(spd) == IF spd <= SlowSpeed THEN BufferSlow ELSE BufferNormal

\* lines 91-92
StopEarlyBuffer(spd) == IF spd < SlowSpeed THEN BufferSlow ELSE BufferNormal

\* line 94
rough_target == target_angle - stop_early_buffer

\* variant: the rough loop's test is <=
RoughCondInclusive == Abs(current_angle) <= Deg(rough_target)

\* variant: the rough loop also gives up 3000 ms after the heading reset
RoughCondTimed ==
    /\ Abs(current_angle) < Deg(rough_target)
    /\ clock - t_reset < FixTimeout

\* line 98: the rough loop's condition
RoughCond == Abs(current_angle) < Deg(rough_target)

\* variant: the two tests are joined by || instead of &&
CorrCondEither ==
    \/ Abs(Abs(current_angle) - Deg(target_angle)) > Deg(Deadband)
    \/ clock - start_fix < FixTimeout

\* variant: the timeout test is <= 3000
CorrCondInclusive ==
    /\ Abs(Abs(current_angle) - Deg(target_angle)) > Deg(Deadband)
    /\ clock - start_fix <= FixTimeout

\* variant: the timeout is measured from the last tick, not from start_fix
CorrCondSinceLastTick ==
    /\ Abs(Abs(current_angle) - Deg(target_angle)) > Deg(Deadband)
    /\ clock - last_time < FixTimeout

\* line 113: the correction loop's condition, for an estimate `angle`
CorrCondAt(angle) ==
    /\ Abs(Abs(angle) - Deg(target_angle)) > Deg(Deadband)
    /\ clock - start_fix < FixTimeout

\* line 113: the correction loop's condition
CorrCond == CorrCondAt(current_angle)

\* variant: the undershoot and overshoot commands are swapped
CorrCmdSwapped(d, angle, target) ==
    LET current_abs == Abs(angle)
    IN IF current_abs < Deg(target)
       THEN IF d = "Left" THEN SetCmd(CORRECTION_SPEED, -CORRECTION_SPEED)
                          ELSE SetCmd(-CORRECTION_SPEED, CORRECTION_SPEED)
       ELSE IF d = "Left" THEN SetCmd(-CORRECTION_SPEED, CORRECTION_SPEED)
                          ELSE SetCmd(CORRECTION_SPEED, -CORRECTION_SPEED)

\* variant: the estimate is compared with its sign (line 116 without Math.abs)
CorrCmdSigned(d, angle, target) ==
    IF angle < Deg(target)
    THEN IF d = "Left" THEN SetCmd(-CORRECTION_SPEED, CORRECTION_SPEED)
                       ELSE SetCmd(CORRECTION_SPEED, -CORRECTION_SPEED)
    ELSE IF d = "Left" THEN SetCmd(CORRECTION_SPEED, -CORRECTION_SPEED)
                       ELSE SetCmd(-CORRECTION_SPEED, CORRECTION_SPEED)

\* variant: the correction runs at the requested speed
CorrCmdUserSpeed(d, angle, target) ==
    LET current_abs == Abs(angle)
    IN IF current_abs < Deg(target)
       THEN IF d = "Left" THEN SetCmd(-speed, speed) ELSE SetCmd(speed, -speed)
       ELSE IF d = "Left" THEN SetCmd(speed, -speed) ELSE SetCmd(-speed, speed)

\* lines 116-133: the correction command for the freshly updated estimate
CorrCmd(d, angle, target) ==
    LET current_abs == Abs(angle)
    IN IF current_abs < Deg(target)
       THEN IF d = "Left" THEN SetCmd(-CORRECTION_SPEED, CORRECTION_SPEED)
                          ELSE SetCmd(CORRECTION_SPEED, -CORRECTION_SPEED)
       ELSE IF d = "Left" THEN SetCmd(CORRECTION_SPEED, -CORRECTION_SPEED)
                          ELSE SetCmd(-CORRECTION_SPEED, CORRECTION_SPEED)

\* variant: line 65 (current_angle = 0) is missing
turnNoReset(d, t, s) ==
    /\ pc = "idle"
    /\ clock < MaxStartMs
    /\ speed_arg' = s
    /\ n_stop' = 0 /\ reads' = 0 /\ raw_total' = 0
    /\ IF NotInitialized
       THEN /\ last_ret' = "rejected"
            /\ n_set' = 0
            /\ UNCHANGED <<globals, turn_locals, pc, clock, motor, t_reset>>
       ELSE /\ last_time' = clock
            /\ t_reset' = clock
            /\ direction' = d
            /\ target_angle' = t
            /\ speed' = ClampSpeed(s)
            /\ left_motor_val' = LeftMotorVal(d, speed')
            /\ right_motor_val' = RightMotorVal(d, speed')
            /\ stop_early_buffer' = StopEarlyBuffer(speed')
            /\ motor' = SetCmd(left_motor_val', right_motor_val')
            /\ n_set' = 1
            /\ pc' = "rough"
            /\ UNCHANGED <<gyro_offset, current_angle, is_initialized, start_fix,
                           clock, last_ret>>
    /\ UNCHANGED <<cal_locals, fails, cal_ghost, env>>

\* lines 62-96: the call, up to the rough motor command
turn(d, t, s) ==
    /\ pc = "idle"
    /\ clock < MaxStartMs
    /\ speed_arg' = s
    /\ n_stop' = 0 /\ reads' = 0 /\ raw_total' = 0
    /\ IF NotInitialized
       THEN /\ last_ret' = "rejected"
            /\ n_set' = 0
            /\ UNCHANGED <<globals, turn_locals, pc, clock, motor, t_reset>>
       ELSE /\ current_angle' = 0
            /\ last_time' = clock
            /\ t_reset' = clock
            /\ direction' = d
            /\ target_angle' = t
            /\ speed' = ClampSpeed(s)
            /\ left_motor_val' = LeftMotorVal(d, speed')
            /\ right_motor_val' = RightMotorVal(d, speed')
            /\ stop_early_buffer' = StopEarlyBuffer(speed')
            /\ motor' = SetCmd(left_motor_val', right_motor_val')
            /\ n_set' = 1
            /\ pc' = "rough"
            /\ UNCHANGED <<gyro_offset, is_initialized, start_fix, clock, last_ret>>
    /\ UNCHANGED <<cal_locals, fails, cal_ghost, env>>

\* lines 98-101: one pass of the rough loop
RoughTick ==
    /\ pc = "rough"
    /\ RoughCond
    /\ env.mode = "free" => reads < MaxRoughTicks
    /\ env.mode = "stall" => reads < MaxStallTicks
    /\ \E rd \in SensorReads("rough") : updateAngle(ToBytes(rd.raw))
    /\ reads' = reads + 1
    /\ Pause(RoughPause)
    /\ UNCHANGED <<gyro_offset, is_initialized, turn_locals, cal_locals, pc, motor,
                   n_set, n_stop, raw_total, fails, cal_ghost, speed_arg, t_reset,
                   last_ret, env>>

\* lines 104-105: the rough loop is over; reverse the motors
Brake ==
    /\ pc = "rough"
    /\ ~RoughCond
    /\ motor' = SetCmd(-left_motor_val, -right_motor_val)
    /\ n_set' = n_set + 1
    /\ Pause(BRAKE_DURATION)
    /\ pc' = "brake"
    /\ UNCHANGED <<globals, turn_locals, cal_locals, n_stop, reads, raw_total, fails,
                   cal_ghost, speed_arg, t_reset, last_ret, env>>

\* variant: the heading is measured once more when the brake pulse ends
BrakeEndMeasured ==
    /\ pc = "brake"
    /\ motor' = StopCmd
    /\ n_stop' = n_stop + 1
    /\ \E rd \in SensorReads("brake") : updateAngle(ToBytes(rd.raw))
    /\ reads' = reads + 1
    /\ Pause(SettlePause)
    /\ pc' = "settle"
    /\ UNCHANGED <<gyro_offset, is_initialized, turn_locals, cal_locals, n_set,
                   raw_total, fails, cal_ghost, speed_arg, t_reset, last_ret, env>>

\* variant: line 106 (stopAllMotor after the brake pulse) is missing
BrakeEndNoStop ==
    /\ pc = "brake"
    /\ Pause(SettlePause)
    /\ pc' = "settle"
    /\ UNCHANGED <<globals, turn_locals, cal_locals, motor, n_set, n_stop, reads,
                   raw_total, fails, cal_ghost, speed_arg, t_reset, last_ret, env>>

\* lines 106-107
BrakeEnd ==
    /\ pc = "brake"
    /\ motor' = StopCmd
    /\ n_stop' = n_stop + 1
    /\ Pause(SettlePause)
    /\ pc' = "settle"
    /\ UNCHANGED <<globals, turn_locals, cal_locals, n_set, reads, raw_total, fails,
                   cal_ghost, speed_arg, t_reset, last_ret, env>>

\* variant: the time stamp of the integrator is renewed after the settle pause
StartFixRestamp ==
    /\ pc = "settle"
    /\ start_fix' = clock
    /\ last_time' = clock
    /\ pc' = "fix"
    /\ UNCHANGED <<gyro_offset, current_angle, is_initialized, direction,
                   target_angle, speed, left_motor_val, right_motor_val,
                   stop_early_buffer, cal_locals, clock, motor, n_set, n_stop,
                   reads, raw_total, fails, cal_ghost, speed_arg, t_reset,
                   last_ret, env>>

\* line 110
StartFix ==
    /\ pc = "settle"
    /\ start_fix' = clock
    /\ pc' = "fix"
    /\ UNCHANGED <<globals, direction, target_angle, speed, left_motor_val,
                   right_motor_val, stop_early_buffer, cal_locals, clock, motor,
                   n_set, n_stop, reads, raw_total, fails, cal_ghost, speed_arg,
                   t_reset, last_ret, env>>

\* lines 113-135: one pass of the correction loop
CorrTick ==
    /\ pc = "fix"
    /\ CorrCond
    /\ \E rd \in SensorReads("fix") : updateAngle(ToBytes(rd.raw))
    /\ reads' = reads + 1
    /\ motor' = CorrCmd(direction, current_angle', target_angle)
    /\ n_set' = n_set + 1
    /\ Pause(FixPause)
    /\ UNCHANGED <<gyro_offset, is_initialized, turn_locals, cal_locals, pc, n_stop,
                   raw_total, fails, cal_ghost, speed_arg, t_reset, last_ret, env>>

\* variant: line 136 (the final stopAllMotor) is missing
TurnExitNoStop ==
    /\ pc = "fix"
    /\ ~CorrCond
    /\ pc' = "idle"
    /\ last_ret' = "turn"
    /\ UNCHANGED <<globals, turn_locals, cal_locals, clock, motor, n_set, n_stop,
                   reads, raw_total, fails, cal_ghost, speed_arg, t_reset, env>>

\* lines 136-138: the correction loop is over; stop and return
TurnExit ==
    /\ pc = "fix"
    /\ ~CorrCond
    /\ motor' = StopCmd
    /\ n_stop' = n_stop + 1
    /\ pc' = "idle"
    /\ last_ret' = "turn"
    /\ UNCHANGED <<globals, turn_locals, cal_locals, clock, n_set, reads, raw_total,
                   fails, cal_ghost, speed_arg, t_reset, env>>

(***************************************************************************)
(* The system                                                              *)
(***************************************************************************)
InitMode(m) ==
    /\ gyro_offset = 0 /\ last_time = 0 /\ current_angle = 0
    /\ is_initialized = FALSE
    /\ direction = "Left" /\ target_angle = 0 /\ speed = 0
    /\ left_motor_val = 0 /\ right_motor_val = 0
    /\ stop_early_buffer = 0 /\ start_fix = 0
    /\ sum = 0 /\ i = 0
    /\ pc = "idle"
    /\ clock = 0
    /\ motor = NoCmd
    /\ n_set = 0 /\ n_stop = 0 /\ reads = 0 /\ raw_total = 0
    /\ fails = 0 /\ cal_failed = FALSE /\ good_cal = FALSE
    /\ speed_arg = 0 /\ t_reset = 0
    /\ last_ret = "none"
    /\ env \in Envs(m)

Call == \E inp \in TurnInputs(env.mode) : turn(inp[1], inp[2], inp[3])

Next ==
    \/ setupAndCalibrate
    \/ CalSample
    \/ CalFinish
    \/ CalReturn
    \/ Call
    \/ RoughTick
    \/ Brake
    \/ BrakeEnd
    \/ StartFix
    \/ CorrTick
    \/ TurnExit

Init == InitMode("free")
Spec == Init /\ [][Next]_vars

InitCal == InitMode("cal")
SpecCal == InitCal /\ [][Next]_vars

InitPlant == InitMode("plant")
SpecPlant == InitPlant /\ [][Next]_vars

InitStuck == InitMode("stuck")
SpecStuck == InitStuck /\ [][Next]_vars

InitConst == InitMode("const")
SpecConst == InitConst /\ [][Next]_vars

\* the thread that runs turn is always resumed after its pause
Running == RoughTick \/ Brake \/ BrakeEnd \/ StartFix \/ CorrTick \/ TurnExit
FairSpec == Init /\ [][Next]_vars /\ WF_vars(Running)

FairSpecStuck == InitStuck /\ [][Next]_vars /\ WF_vars(Running)

InitStall == InitMode("stall")
FairSpecStall == InitStall /\ [][Next]_vars /\ WF_vars(Running)

(***************************************************************************)
(* Properties                                                              *)
(***************************************************************************)
InTurn == pc \in {"rough", "brake", "settle", "fix"}
Returned == pc = "idle" /\ last_ret = "turn"
Elapsed == clock - start_fix
Converged == Abs(Abs(current_angle) - Deg(target_angle)) <= Deg(Deadband)

\* clamp(abs(s), 20, 100), stated without the code's sequence of tests
EffectiveSpeed(s) ==
    CASE s >= 0 /\ s <= 20 -> 20
      [] s < 0 /\ -s <= 20 -> 20
      [] s >= 100 \/ -s >= 100 -> 100
      [] s > 20 /\ s < 100 -> s
      [] OTHER -> -s

\* C1: a turn called while is_initialized = false issues no motor command,
\* reads no sensor, leaves current_angle, last_time (and every other program
\* variable, and the clock) unchanged and returns at once, for every request;
\* hence no command has ever been issued while the flag is still false.
C1_UncalibratedTurnIsNoOp ==
    /\ [][(Call /\ ~is_initialized) =>
            /\ UNCHANGED <<globals, turn_locals, motor, clock, pc>>
            /\ n_set' = 0 /\ n_stop' = 0 /\ reads' = 0
            /\ last_ret' = "rejected"]_vars
    /\ [](~is_initialized => (motor = NoCmd /\ n_set = 0 /\ n_stop = 0 /\ reads = 0))

C1_Witness ==
    /\ ~is_initialized
    /\ last_ret = "rejected"
    /\ speed_arg = 30
    /\ pc = "idle"

\* C2: turn issues motor commands only if some calibration has completed with
\* every one of its sample reads successful.
C2_CommandsOnlyAfterGoodCalibration == (motor # NoCmd) => good_cal

\* C3: every step by which an accepted turn returns issues stopAllMotor, and
\* nothing after it: the stop is the last actuator command of the call, whether
\* the loop ended by the deadband, by the timeout or without any iteration.
C3_LastCommandIsStop ==
    /\ [][(InTurn /\ pc' = "idle") =>
            /\ motor' = StopCmd
            /\ n_stop' = n_stop + 1
            /\ n_set' = n_set]_vars
    /\ [](Returned => motor = StopCmd)

C3_Witness ==
    /\ Returned
    /\ motor = StopCmd
    /\ Elapsed >= FixTimeout
    /\ ~Converged
    /\ n_set > 2

\* C4 (as claimed): in the stuck-sensor scenario with target_angle = 45 the turn
\* leaves the correction loop with control.millis() - start_fix equal to 3000
\* and the motors stopped.
C4_ExitsAtExactly3000 ==
    (Returned /\ target_angle = 45) => (Elapsed = FixTimeout /\ motor = StopCmd)

\* C4 (amended): in the stuck-sensor scenario with target_angle = 45 the turn
\* does not hang: it leaves the correction loop at the first evaluation of the
\* loop condition at which control.millis() - start_fix >= 3000, that is with
\* 3000 <= elapsed < 3000 + the duration of one iteration, with the motors
\* stopped; the elapsed time is exactly 3000 when every iteration takes exactly
\* its 20 ms pause.
C4_ExitsAtFirstCheckAfter3000 ==
    /\ []((Returned /\ target_angle = 45) =>
            /\ motor = StopCmd
            /\ ~Converged
            /\ Elapsed >= FixTimeout
            /\ Elapsed < FixTimeout + FixPause + env.lag
            /\ (env.lag = 0 => Elapsed = FixTimeout))
    /\ ((pc = "fix" /\ target_angle = 45) ~> Returned)

C4_Witness ==
    /\ Returned
    /\ target_angle = 45
    /\ env.lag = 1
    /\ Elapsed > FixTimeout
    /\ motor = StopCmd

\* C5: once the correction phase is entered the call returns, whatever the
\* sensor reads; no iteration starts when 3000 ms or more have elapsed since
\* start_fix, and the timed-out call returns like any other.
C5_CorrectionTerminates ==
    /\ (pc = "fix" ~> Returned)
    /\ [][(pc = "fix" /\ Elapsed >= FixTimeout) =>
            /\ pc' = "idle"
            /\ reads' = reads
            /\ n_set' = n_set
            /\ last_ret' = "turn"]_vars

C5_Witness ==
    /\ Returned
    /\ Elapsed >= FixTimeout
    /\ ~Converged
    /\ reads >= 150

\* C6: turn(Right, 90, 50) with the rate equal to the commanded motor
\* differential returns with abs(current_angle) within 1 degree of 90, the
\* motors stopped and at most 3000 ms spent in the correction loop.
C6_ConvergenceScenario ==
    (Returned /\ direction = "Right" /\ target_angle = 90 /\ speed_arg = 50) =>
        /\ Converged
        /\ motor = StopCmd
        /\ Elapsed <= FixTimeout

C6_Witness ==
    /\ Returned
    /\ direction = "Right" /\ target_angle = 90 /\ speed_arg = 50
    /\ n_set > 2
    /\ Converged

\* C7: for every speed argument both motor values of the rough command and of
\* the brake command have magnitude clamp(abs(speed), 20, 100).
C7_ClampedSpeed ==
    (pc \in {"rough", "brake"}) =>
        /\ motor[1] = "set"
        /\ Abs(motor[2]) = EffectiveSpeed(speed_arg)
        /\ Abs(motor[3]) = EffectiveSpeed(speed_arg)

C7_Witness ==
    /\ pc = "brake"
    /\ speed_arg = -150
    /\ Abs(motor[2]) = 100

\* C8: the early-stop buffer is 8 when the effective speed is below 40 and 15
\* otherwise, whatever the target; the rough loop ticks exactly while
\* abs(current_angle) < target_angle - buffer, and the brake command is issued
\* at the first check where that fails.
BufferFor(s) == IF EffectiveSpeed(s) <= 39 THEN 8 ELSE 15

C8_EarlyStopBuffer ==
    /\ [](InTurn => stop_early_buffer = BufferFor(speed_arg))
    /\ [][pc = "rough" =>
            IF Abs(current_angle) < Deg(target_angle - BufferFor(speed_arg))
            THEN pc' = "rough" /\ reads' = reads + 1 /\ motor' = motor
            ELSE /\ pc' = "brake"
                 /\ reads' = reads
                 /\ motor' = SetCmd(-motor[2], -motor[3])]_vars

C8_Witness ==
    /\ pc = "brake"
    /\ speed_arg = 40
    /\ stop_early_buffer = 15
    /\ reads > 0

\* C9: with the same bias-corrected rate R on every updateAngle of a turn, the
\* estimate after any number of ticks equals R times the time from the reset to
\* the last tick, however that time is split into ticks.
C9_IntegrationLinearity ==
    (InTurn \/ Returned) =>
        current_angle = env.rate * RateUnit * (last_time - t_reset)

C9_Witness ==
    /\ pc = "fix"
    /\ reads > 3
    /\ env.lag = 1
    /\ current_angle # 0
    /\ current_angle = env.rate * RateUnit * (last_time - t_reset)

\* C10: when setupAndCalibrate has taken its samples it has read the sensor
\* exactly 20 times, gyro_offset is the mean of those 20 readings whatever it
\* was before, and is_initialized is true.
C10_BiasIsSampleMean ==
    (pc = "ready") =>
        /\ reads = Samples
        /\ gyro_offset * Sensitivity * Samples = raw_total * RateUnit
        /\ is_initialized

C10_Witness ==
    /\ pc = "ready"
    /\ last_ret = "calibrate"
    /\ fails = 1 /\ ~cal_failed
    /\ gyro_offset = TrueBias * Samples

\* C11: the rough loop has no timeout.  With zero bias-corrected rate on every
\* tick and target_angle above the early-stop buffer, the turn never leaves the
\* rough loop: the estimate stays 0, the loop condition holds at every check
\* (so another tick always follows), the rough command stays applied, no brake
\* and no stop is issued and the call does not return, also once more than
\* 3000 ms have passed.  Every other phase ends: from the brake, the settle
\* pause and the correction loop the call returns.
C11_RoughPhaseUnbounded ==
    /\ []((InTurn /\ target_angle > stop_early_buffer) =>
            /\ pc = "rough"
            /\ RoughCond
            /\ current_angle = 0
            /\ motor = SetCmd(left_motor_val, right_motor_val)
            /\ n_set = 1 /\ n_stop = 0)
    /\ [][(pc = "rough" /\ target_angle > stop_early_buffer) =>
            (pc' = "rough" /\ motor' = motor)]_vars
    /\ ((pc \in {"brake", "settle", "fix"}) ~> Returned)

C11_Witness ==
    /\ pc = "rough"
    /\ target_angle = 45
    /\ clock - t_reset > FixTimeout
    /\ reads > 300
    /\ current_angle = 0
    /\ motor = SetCmd(50, -50)

\* C12: the actuator commands of an accepted turn come in one order: one rough
\* command; after the rough loop one brake command, the rough command with
\* both signs flipped, followed by a pause of BRAKE_DURATION whatever the
\* angle; then stopAllMotor and the 200 ms settle pause; then zero or more
\* correction commands; then the final stopAllMotor.  The phases follow each
\* other in that order and none is entered twice.
IsCorrectionCmd(m) ==
    /\ m[1] = "set"
    /\ Abs(m[2]) = CORRECTION_SPEED
    /\ Abs(m[3]) = CORRECTION_SPEED

PhaseOrder ==
    {<<"rough", "brake">>, <<"brake", "settle">>, <<"settle", "fix">>,
     <<"fix", "idle">>}

C12_CommandOrder ==
    /\ [](pc = "rough" => (n_set = 1 /\ n_stop = 0 /\ motor[1] = "set"))
    /\ [](pc = "brake" => (n_set = 2 /\ n_stop = 0 /\ motor[1] = "set"))
    /\ [](pc = "settle" => (n_set = 2 /\ n_stop = 1 /\ motor = StopCmd))
    /\ [](pc = "fix" =>
            /\ n_stop = 1
            /\ n_set >= 2
            /\ (n_set = 2 => motor = StopCmd)
            /\ (n_set > 2 => IsCorrectionCmd(motor)))
    /\ [](Returned => (n_stop = 2 /\ n_set >= 2 /\ motor = StopCmd))
    /\ [][(InTurn /\ pc' # pc) => <<pc, pc'>> \in PhaseOrder]_vars
    /\ [][(pc = "rough" /\ pc' = "brake") =>
            /\ motor' = SetCmd(-motor[2], -motor[3])
            /\ clock' - clock = BRAKE_DURATION + env.lag]_vars
    /\ [][(pc = "brake") =>
            /\ pc' = "settle"
            /\ clock' - clock = SettlePause + env.lag]_vars
    /\ [][(pc = "fix" /\ pc' = "fix") =>
            (n_set' = n_set + 1 /\ IsCorrectionCmd(motor'))]_vars

C12_Witness ==
    /\ Returned
    /\ n_set > 3
    /\ n_stop = 2
    /\ current_angle # 0

\* C13: the rough command is (-speed, +speed) for Left and (+speed, -speed)
\* for Right.  Each correction iteration commands magnitude 25 on both motors:
\* with the signs of the rough command when the freshly updated estimate has
\* abs(current_angle) < target_angle, with the opposite signs otherwise.
Turning(d, mag) == IF d = "Left" THEN SetCmd(-mag, mag) ELSE SetCmd(mag, -mag)
Opposite(d) == IF d = "Left" THEN "Right" ELSE "Left"

C13_MotorSigns ==
    /\ [](pc = "rough" => motor = Turning(direction, EffectiveSpeed(speed_arg)))
    /\ [][(pc = "fix" /\ pc' = "fix" /\ n_set' # n_set) =>
            motor' = IF Abs(current_angle') < Deg(target_angle)
                     THEN Turning(direction, 25)
                     ELSE Turning(Opposite(direction), 25)]_vars
    /\ [][(pc = "idle" /\ pc' = "rough") =>
            \E inp \in TurnInputs(env.mode) :
                /\ direction' = inp[1]
                /\ speed_arg' = inp[3]
                /\ motor' = Turning(inp[1], EffectiveSpeed(inp[3]))]_vars

C13_Witness ==
    /\ pc = "fix"
    /\ direction = "Left"
    /\ speed_arg = 50
    /\ Abs(current_angle) > Deg(target_angle)
    /\ motor = SetCmd(25, -25)

\* C14: when target_angle is at most the early-stop buffer the rough loop makes
\* no tick and no sensor read, yet the rough command and the whole brake pulse
\* are issued; the estimate is still 0 when the correction starts and every
\* sensor read of the call is a correction tick.
SmallTarget == target_angle <= BufferFor(speed_arg)

C14_SmallTargetSkipsRoughLoop ==
    /\ []((SmallTarget /\ pc \in {"rough", "brake", "settle"}) =>
            (reads = 0 /\ current_angle = 0))
    /\ []((SmallTarget /\ pc = "rough") =>
            (n_set = 1 /\ motor = Turning(direction, EffectiveSpeed(speed_arg))))
    /\ []((SmallTarget /\ pc = "fix") => (n_stop = 1 /\ reads = n_set - 2))
    /\ [][(SmallTarget /\ pc = "rough") =>
            /\ pc' = "brake"
            /\ motor' = Turning(Opposite(direction), EffectiveSpeed(speed_arg))
            /\ clock' - clock = BRAKE_DURATION + env.lag]_vars

C14_Witness ==
    /\ pc = "fix"
    /\ target_angle = 15
    /\ stop_early_buffer = 15
    /\ reads = 0
    /\ n_set = 2
    /\ current_angle = 0

C16_TurnStartsFromReset ==
    /\ [][(pc = "idle" /\ pc' = "rough") =>
            /\ current_angle' = 0
            /\ last_time' = clock'
            /\ clock' = clock
            /\ reads' = 0
            /\ \E inp \in TurnInputs(env.mode) :
                /\ direction' = inp[1]
                /\ target_angle' = inp[2]
                /\ speed' = EffectiveSpeed(inp[3])
                /\ stop_early_buffer' = BufferFor(inp[3])
                /\ motor' = Turning(inp[1], EffectiveSpeed(inp[3]))
                /\ left_motor_val' = motor'[2]
                /\ right_motor_val' = motor'[3]]_vars
    /\ [][(pc = "settle") => (pc' = "fix" /\ start_fix' = clock)]_vars
    /\ [](pc = "rough" /\ reads = 0 => (current_angle = 0 /\ last_time = t_reset))

C16_Witness ==
    /\ pc = "rough"
    /\ last_ret = "turn"
    /\ reads = 0
    /\ current_angle = 0
    /\ last_time = clock
    /\ start_fix > 0
    /\ start_fix < clock

\* C17: when an accepted turn returns, the last evaluation of the correction
\* loop's condition found the estimate within 1 degree of the target or at
\* least 3000 ms elapsed since the correction started; and a correction
\* iteration runs only with the estimate more than 1 degree off and less than
\* 3000 ms elapsed.
C17_CorrectionGuard ==
    /\ [][(pc = "fix" /\ pc' = "idle") =>
            /\ (Converged \/ Elapsed >= FixTimeout)
            /\ UNCHANGED <<current_angle, clock, start_fix, target_angle>>]_vars
    /\ [](Returned => (Converged \/ Elapsed >= FixTimeout))
    /\ [][(pc = "fix" /\ (reads' # reads \/ n_set' # n_set)) =>
            /\ ~Converged
            /\ Elapsed < FixTimeout
            /\ reads' = reads + 1
            /\ n_set' = n_set + 1]_vars

C17_Witness ==
    /\ Returned
    /\ Converged
    /\ Elapsed < FixTimeout
    /\ Elapsed > 0
    /\ n_set > 3

\* C18: the correction decides from abs(current_angle) alone.  At every check
\* the loop condition has the same value for the estimate and for its mirror
\* image, and every correction command is the one the code computes for the
\* mirrored estimate: two runs whose estimates differ only in sign at every
\* tick issue the same commands.  In particular an estimate beyond the target
\* is taken as overshoot whatever its sign, and the command is the one opposite
\* to the requested direction.
C18_DecisionUsesMagnitudeOnly ==
    /\ [](pc = "fix" => (CorrCondAt(current_angle) <=> CorrCondAt(-current_angle)))
    /\ [][(pc = "fix" /\ n_set' # n_set) =>
            /\ motor' = CorrCmd(direction, -current_angle', target_angle)
            /\ (((current_angle' >= Deg(target_angle))
                    \/ (-current_angle' >= Deg(target_angle)))
                => motor' = Turning(Opposite(direction), CORRECTION_SPEED))]_vars

C18_Witness ==
    /\ pc = "fix"
    /\ n_set >= 3
    /\ direction = "Left"
    /\ current_angle > Deg(target_angle) + Deg(Deadband)
    /\ motor = SetCmd(CORRECTION_SPEED, -CORRECTION_SPEED)

\* C19: every setAllMotor command of turn is an in-place rotation: left = -right,
\* with the clamped requested speed as magnitude in the rough and brake
\* commands and 25 in the correction commands; the two motors are never driven
\* the same way and no magnitude exceeds 100.
C19_PureRotation ==
    (motor[1] = "set") =>
        /\ motor[2] = -motor[3]
        /\ motor[2] # 0
        /\ Abs(motor[2]) <= 100
        /\ (pc \in {"rough", "brake"} => Abs(motor[2]) = EffectiveSpeed(speed_arg))
        /\ (pc = "fix" => Abs(motor[2]) = 25)
        /\ pc \in {"rough", "brake", "fix"}

C19_Witness ==
    /\ pc = "brake"
    /\ speed_arg = 101
    /\ direction = "Right"
    /\ motor = SetCmd(-100, 100)

====
